---- MODULE Spec2Model ----
(***************************************************************************)
(* Model of packages/next/src/server/lib/incremental-cache/                *)
(* file-system-cache.ts: the FileSystemCache handler with its process-wide *)
(* memoryCache and tagsManifest, the shared file system, and the           *)
(* operations constructor, get, set and revalidateTag.                     *)
(*                                                                         *)
(* Optional values (undefined / a missing file / null) are sequences of    *)
(* length 0 or 1.  Strings whose length the code measures are abstract     *)
(* contents with a length table (StrLen).                                  *)
(***************************************************************************)
EXTENDS Integers, Sequences, FiniteSets, TLC

\* ------------------------------------------------------------------ bounds
\* Date.now() ranges over 1..MaxTime.
MaxTime == 2

\* ------------------------------------------------------------ input domains
Procs == {"A", "B"}
Keys == {"k1"}
Tags == {"a", "b"}
Bodies == {"x", "yy"}
MemorySizes == {0, 3}

None == <<>>
Some(x) == <<x>>

\* IncrementalCacheKind / CachedRouteKind members the handler dispatches on.
FETCH == "FETCH"
APP_PAGE == "APP_PAGE"
PAGES == "PAGES"
APP_ROUTE == "APP_ROUTE"
Kinds == {FETCH, APP_PAGE, PAGES, APP_ROUTE}

\* Kinds of the two enums that the handler has no case for: IMAGE (of both
\* enums) and REDIRECT (a CachedRouteKind only).
IMAGE == "IMAGE"
REDIRECT == "REDIRECT"

\* lib/constants suffixes used to derive file names.
NEXT_DATA_SUFFIX == ".json"
NEXT_META_SUFFIX == ".meta"
RSC_PREFETCH_SUFFIX == ".prefetch.rsc"
RSC_SUFFIX == ".rsc"

\* Length of the abstract strings ("undefined" stands for a value that
\* JSON.stringify maps to undefined, whose ?.length || 0 is 0).
StrLen(s) ==
  CASE s = "x" -> 1
    [] s = "yy" -> 2
    [] s = "d" -> 1
    [] s = "{}" -> 2
    [] s = "undefined" -> 0
    [] OTHER -> 0

\* A cached value.  body: html / route body / fetch data; data: rscData or
\* pageData; headers: None or Some(sequence of tags), the sequence being the
\* comma-joined x-next-cache-tags header; status: 0 for undefined; tags: the
\* tags field of a fetch value.
Value(kind, body, data, headers, status, postponed, tags) ==
  [kind |-> kind, body |-> body, data |-> data, headers |-> headers,
   status |-> status, postponed |-> postponed, tags |-> tags]

Entry(lastModified, value) == [lastModified |-> lastModified, value |-> value]

\* tagsHeader.split(','): the tags of the header value.
SplitTags(h) == {h[i] : i \in DOMAIN h}

\* The empty manifest { version: 1, items: {} }; items maps a tag to its
\* revalidatedAt, 0 standing for a tag that has no item.
EmptyManifest == [t \in Tags |-> 0]

\* --------------------------------------------------------------- memory tier
\* length() of the LRUCache options: the cost of one cached value.
NullLength == 25

NullValue == Value("NULL", "undefined", "undefined", None, 0, "undefined", {})

\* length() throws for an IMAGE value.
LengthThrows(value) == value.kind = IMAGE

Length(value) ==
  IF value.kind = "NULL" THEN NullLength
  ELSE IF value.kind = REDIRECT THEN StrLen(value.body)
  ELSE IF value.kind = FETCH THEN StrLen(value.body)
  ELSE IF value.kind = APP_ROUTE THEN StrLen(value.body)
  ELSE StrLen(value.body) + StrLen(value.data)

\* new LRUCache({ max, length }): items are kept most recently used first.
NewLRUCache(max) == [max |-> max, items |-> <<>>]

RECURSIVE TotalLength(_)
TotalLength(items) ==
  IF items = <<>> THEN 0
  ELSE Length(Head(items).entry.value) + TotalLength(Tail(items))

RECURSIVE Trim(_, _)
Trim(items, max) ==
  IF items # <<>> /\ TotalLength(items) > max
  THEN Trim(SubSeq(items, 1, Len(items) - 1), max)
  ELSE items

RemoveKey(items, key) == SelectSeq(items, LAMBDA it : it.key # key)

LruHas(cache, key) == \E i \in DOMAIN cache.items : cache.items[i].key = key

LruPeek(cache, key) ==
  IF LruHas(cache, key)
  THEN Some((CHOOSE i \in DOMAIN cache.items : cache.items[i].key = key) )
  ELSE None

\* memoryCache.get(key): the entry, and the cache with the key made most recent.
LruGetEntry(cache, key) ==
  IF LruHas(cache, key)
  THEN Some(cache.items[LruPeek(cache, key)[1]].entry)
  ELSE None

LruGetCache(cache, key) ==
  IF LruHas(cache, key)
  THEN [cache EXCEPT !.items =
          <<cache.items[LruPeek(cache, key)[1]]>> \o RemoveKey(cache.items, key)]
  ELSE cache

\* memoryCache.set(key, entry): an entry longer than max is not stored (and
\* drops the key); otherwise the entry becomes most recent and the least
\* recently used entries are dropped until the total length fits.
LruSet(cache, key, entry) ==
  IF Length(entry.value) > cache.max
  THEN [cache EXCEPT !.items = RemoveKey(cache.items, key)]
  ELSE [cache EXCEPT !.items =
          Trim(<<[entry |-> entry, key |-> key]>> \o RemoveKey(cache.items, key),
               cache.max)]

\* memoryCache?.get(key) and memoryCache?.set(key, entry) on the optional
\* process-wide cache.
MemGet(mc, key) == IF mc = None THEN None ELSE LruGetEntry(mc[1], key)
MemTouch(mc, key) == IF mc = None THEN None ELSE Some(LruGetCache(mc[1], key))
MemSet(mc, key, entry) == IF mc = None THEN None ELSE Some(LruSet(mc[1], key, entry))

\* -------------------------------------------------------------- file system
\* getFilePath(pathname, kind): the directory depends on the kind; a pathname
\* is the pair <<key, suffix>>.
GetFilePath(pathname, kind) ==
  CASE kind = FETCH -> <<"cache/fetch-cache", pathname[1], pathname[2]>>
    [] kind = PAGES -> <<"pages", pathname[1], pathname[2]>>
    [] kind \in {IMAGE, APP_PAGE, APP_ROUTE} -> <<"app", pathname[1], pathname[2]>>

\* getFilePath throws for a kind that is no IncrementalCacheKind.
GetFilePathThrows(kind) == kind \notin {FETCH, PAGES, IMAGE, APP_PAGE, APP_ROUTE}

\* filePath.replace(/<from>$/, to)
ReplaceSuffix(path, from, to) ==
  IF path[3] = from THEN <<path[1], path[2], to>> ELSE path

\* path.join(serverDistDir, '..', 'cache', 'fetch-cache', 'tags-manifest.json')
TagsManifestPath == <<"cache/fetch-cache", "tags-manifest.json", "">>

\* path.dirname(path)
Dirname(path) == path[1]

Paths ==
  {TagsManifestPath}
    \cup {GetFilePath(<<k, "">>, FETCH) : k \in Keys}
    \cup {GetFilePath(<<k, s>>, PAGES) : k \in Keys, s \in {".html", NEXT_DATA_SUFFIX}}
    \cup {GetFilePath(<<k, s>>, APP_PAGE) : k \in Keys,
            s \in {".html", RSC_SUFFIX, RSC_PREFETCH_SUFFIX, NEXT_META_SUFFIX, ".body"}}

\* A file is its content and its modification time.
File(content, mtime) == [content |-> content, mtime |-> mtime]

\* fs.writeFile(path, content) at time t, for the content files that get
\* calls fs.stat on.
WriteFile(fs, path, content, t) == [fs EXCEPT ![path] = Some(File(content, t))]

\* fs.writeFile(path, content) for the sidecar, data-payload and manifest
\* files: the handler never reads their modification time, which is left
\* out (0).
WriteSidecar(fs, path, content) == [fs EXCEPT ![path] = Some(File(content, 0))]

\* JSON.stringify({ ...data, tags: ctx.tags }) of a fetch value and its parse.
FetchJson(data, tags) == [data EXCEPT !.tags = tags]

\* JSON.stringify(meta) of a RouteMetadata and its parse.
MetaJson(headers, status, postponed) ==
  [headers |-> headers, status |-> status, postponed |-> postponed]

\* ------------------------------------------------------------------- faults
\* The calls of the fs capability that reject: a fault is the call and the
\* path it is made on.  A readFile fault also stands for a file whose content
\* JSON.parse rejects, which the handler catches together with the read.
Fault(call, path) == <<call, path>>

Fails(faults, call, path) == Fault(call, path) \in faults

\* The directory a mkdir call is made on, as a path.
DirPath(dir) == <<dir, "", "">>

NoFaults == {}

\* await this.fs.readFile(path) with the parse of its content, if any: None
\* when the file is missing, the read rejects or the parse throws.
ReadFile(fs, faults, path) ==
  IF Fails(faults, "readFile", path) THEN None ELSE fs[path]

\* One writeFile call of set: the path, the content, and whether get reads
\* the modification time of the file.
Step(path, content, stat) == [path |-> path, content |-> content, stat |-> stat]

\* The outcome of a sequence of writeFile calls: the file system, the files
\* written, and "io" when a call rejected (the calls after it are not made).
WriteResult(fs, writes, threw) == [fs |-> fs, writes |-> writes, threw |-> threw]

RECURSIVE WriteAll(_, _, _, _)
WriteAll(fs, faults, steps, t) ==
  IF steps = <<>> THEN WriteResult(fs, {}, "none")
  ELSE IF Fails(faults, "writeFile", Head(steps).path) THEN WriteResult(fs, {}, "io")
  ELSE LET st == Head(steps)
           fs1 == IF st.stat THEN WriteFile(fs, st.path, st.content, t)
                  ELSE WriteSidecar(fs, st.path, st.content)
           rest == WriteAll(fs1, faults, Tail(steps), t)
       IN WriteResult(rest.fs, {st.path} \cup rest.writes, rest.threw)

\* await this.fs.mkdir(dir) followed by the writeFile calls.
MkdirAndWrite(fs, faults, dir, steps, t) ==
  IF Fails(faults, "mkdir", DirPath(dir))
  THEN [fs |-> fs, writes |-> {}, threw |-> "io", mkdirs |-> {}]
  ELSE LET w == WriteAll(fs, faults, steps, t)
       IN [fs |-> w.fs, writes |-> w.writes, threw |-> w.threw, mkdirs |-> {dir}]

\* ---------------------------------------------------------------------- set
\* The context of get and set.
Ctx(tags, softTags, kind, isRoutePPREnabled, isFallback) ==
  [kind |-> kind, tags |-> tags, softTags |-> softTags,
   isRoutePPREnabled |-> isRoutePPREnabled, isFallback |-> isFallback]

\* The outcome of set: the memory cache, the file system, the files and
\* directories it wrote, and the error it raises to its caller ("none", "io"
\* for a rejected fs call, "invariant" for an invariant error).
SetResult(mc, fs, writes, mkdirs, threw) ==
  [mc |-> mc, fs |-> fs, writes |-> writes, threw |-> threw, mkdirs |-> mkdirs]

\* The data-payload file of a page: the rsc or prefetch.rsc file of an app
\* page, the json file of a pages page.
DataFilePath(key, isAppPath, isRoutePPREnabled) ==
  GetFilePath(
    <<key, IF isAppPath
           THEN (IF isRoutePPREnabled THEN RSC_PREFETCH_SUFFIX ELSE RSC_SUFFIX)
           ELSE NEXT_DATA_SUFFIX>>,
    IF isAppPath THEN APP_PAGE ELSE PAGES)

SetAppRoute(mc, fs, faults, key, data, t) ==
  LET filePath == GetFilePath(<<key, ".body">>, APP_ROUTE)
      metaPath == ReplaceSuffix(filePath, ".body", NEXT_META_SUFFIX)
      w == MkdirAndWrite(fs, faults, Dirname(filePath),
                         <<Step(filePath, data.body, TRUE),
                           Step(metaPath,
                                MetaJson(data.headers, data.status, "undefined"),
                                FALSE)>>, t)
  IN SetResult(mc, w.fs, w.writes, w.mkdirs, w.threw)

\* SetPage writing the data-payload file also for a fallback.
SetPageAlwaysData(mc, fs, faults, key, data, ctx, t) ==
  LET isAppPath == data.kind = APP_PAGE
      htmlPath == GetFilePath(<<key, ".html">>, IF isAppPath THEN APP_PAGE ELSE PAGES)
      dataPath == DataFilePath(key, isAppPath, ctx.isRoutePPREnabled)
      metaPath == ReplaceSuffix(htmlPath, ".html", NEXT_META_SUFFIX)
      w == MkdirAndWrite(fs, faults, Dirname(htmlPath),
                         <<Step(htmlPath, data.body, TRUE),
                           Step(dataPath, data.data, FALSE)>>
                         \o (IF isAppPath
                             THEN <<Step(metaPath,
                                         MetaJson(data.headers, data.status,
                                                  data.postponed),
                                         FALSE)>>
                             ELSE <<>>), t)
  IN SetResult(mc, w.fs, w.writes, w.mkdirs, w.threw)

SetPage(mc, fs, faults, key, data, ctx, t) ==
  LET isAppPath == data.kind = APP_PAGE
      htmlPath == GetFilePath(<<key, ".html">>, IF isAppPath THEN APP_PAGE ELSE PAGES)
      dataPath == DataFilePath(key, isAppPath, ctx.isRoutePPREnabled)
      metaPath == ReplaceSuffix(htmlPath, ".html", NEXT_META_SUFFIX)
      w == MkdirAndWrite(fs, faults, Dirname(htmlPath),
                         <<Step(htmlPath, data.body, TRUE)>>
                         \o (IF ~ctx.isFallback
                             THEN <<Step(dataPath, data.data, FALSE)>> ELSE <<>>)
                         \o (IF isAppPath
                             THEN <<Step(metaPath,
                                         MetaJson(data.headers, data.status,
                                                  data.postponed),
                                         FALSE)>>
                             ELSE <<>>), t)
  IN SetResult(mc, w.fs, w.writes, w.mkdirs, w.threw)

SetFetch(mc, fs, faults, key, data, ctx, t) ==
  LET filePath == GetFilePath(<<key, "">>, FETCH)
      w == MkdirAndWrite(fs, faults, Dirname(filePath),
                         <<Step(filePath, FetchJson(data, ctx.tags), TRUE)>>, t)
  IN SetResult(mc, w.fs, w.writes, w.mkdirs, w.threw)

\* SetOp writing the memory cache only when persistent writes are enabled.
SetOpMemoryOnlyWithDisk(mc, fs, faults, flushToDisk, key, data, ctx, t) ==
  LET mc1 == MemSet(mc, key, Entry(t, data))
  IN IF mc # None /\ LengthThrows(data) THEN SetResult(mc, fs, {}, {}, "invariant")
     ELSE IF ~flushToDisk \/ data.kind = "NULL" THEN SetResult(mc, fs, {}, {}, "none")
     ELSE IF data.kind = APP_ROUTE THEN SetAppRoute(mc1, fs, faults, key, data, t)
     ELSE IF data.kind \in {PAGES, APP_PAGE}
       THEN SetPage(mc1, fs, faults, key, data, ctx, t)
     ELSE IF data.kind = FETCH THEN SetFetch(mc1, fs, faults, key, data, ctx, t)
     ELSE SetResult(mc1, fs, {}, {}, "invariant")

\* set(key, data, ctx) at time t by an instance with the given flushToDisk:
\* the memory cache is written first (its length() throws for an IMAGE
\* value), then the files of the kind of the value.
SetOp(mc, fs, faults, flushToDisk, key, data, ctx, t) ==
  LET mc1 == MemSet(mc, key, Entry(t, data))
  IN IF mc # None /\ LengthThrows(data) THEN SetResult(mc, fs, {}, {}, "invariant")
     ELSE IF ~flushToDisk \/ data.kind = "NULL" THEN SetResult(mc1, fs, {}, {}, "none")
     ELSE IF data.kind = APP_ROUTE THEN SetAppRoute(mc1, fs, faults, key, data, t)
     ELSE IF data.kind \in {PAGES, APP_PAGE}
       THEN SetPage(mc1, fs, faults, key, data, ctx, t)
     ELSE IF data.kind = FETCH THEN SetFetch(mc1, fs, faults, key, data, ctx, t)
     ELSE SetResult(mc1, fs, {}, {}, "invariant")

\* ------------------------------------------------------------ tags manifest
\* The outcome of loadTagsManifest / loadTagsManifestSync: the in-memory
\* manifest and the files read.  A manifest already in memory is kept; a file
\* that cannot be read or parsed gives the empty manifest.
LoadResult(tm, reads) == [tm |-> tm, reads |-> reads]

\* LoadTagsManifest reading the file whether or not a manifest is in memory.
LoadTagsManifestAlways(tm, fs, faults) ==
  IF ReadFile(fs, faults, TagsManifestPath) = None
  THEN LoadResult(Some(EmptyManifest), {TagsManifestPath})
  ELSE LoadResult(Some(fs[TagsManifestPath][1].content), {TagsManifestPath})

LoadTagsManifest(tm, fs, faults) ==
  IF tm # None THEN LoadResult(tm, {})
  ELSE IF ReadFile(fs, faults, TagsManifestPath) = None
       THEN LoadResult(Some(EmptyManifest), {TagsManifestPath})
       ELSE LoadResult(Some(fs[TagsManifestPath][1].content), {TagsManifestPath})

LoadTagsManifestSync(tm, fs, faults) == LoadTagsManifest(tm, fs, faults)

\* The outcome of revalidateTag: the in-memory manifest, the file system, the
\* manifest as it was after the load step, the I/O performed, and the error
\* raised to the caller.
RevalidateResult(tm, fs, loaded, reads, writes, mkdirs, threw) ==
  [fs |-> fs, writes |-> writes, threw |-> threw, mkdirs |-> mkdirs, tm |-> tm,
   reads |-> reads, loaded |-> loaded]

\* RevalidateTagOp without the early return for an empty tag list.
RevalidateTagOpNoEmptyCheck(tm, fs, faults, tags, t) ==
  LET ld == LoadTagsManifest(tm, fs, faults)
      items == [tag \in Tags |-> IF tag \in tags THEN t ELSE ld.tm[1][tag]]
      w == MkdirAndWrite(fs, faults, Dirname(TagsManifestPath),
                         <<Step(TagsManifestPath, items, FALSE)>>, t)
  IN RevalidateResult(Some(items), w.fs, ld.tm, ld.reads, w.writes, w.mkdirs, "none")

\* RevalidateTagOp without the try/catch around the manifest write.
RevalidateTagOpNoCatch(tm, fs, faults, tags, t) ==
  IF tags = {} THEN RevalidateResult(tm, fs, tm, {}, {}, {}, "none")
  ELSE
    LET ld == LoadTagsManifest(tm, fs, faults)
        items == [tag \in Tags |-> IF tag \in tags THEN t ELSE ld.tm[1][tag]]
        w == MkdirAndWrite(fs, faults, Dirname(TagsManifestPath),
                           <<Step(TagsManifestPath, items, FALSE)>>, t)
    IN RevalidateResult(Some(items), w.fs, ld.tm, ld.reads, w.writes, w.mkdirs,
                        w.threw)

\* revalidateTag(tags) at time t: the items of the tags are set in the
\* in-memory manifest, then the manifest is written; a rejected mkdir or
\* writeFile is caught and logged.
RevalidateTagOp(tm, fs, faults, tags, t) ==
  IF tags = {} THEN RevalidateResult(tm, fs, tm, {}, {}, {}, "none")
  ELSE
    LET ld == LoadTagsManifest(tm, fs, faults)
        items == [tag \in Tags |-> IF tag \in tags THEN t ELSE ld.tm[1][tag]]
        w == MkdirAndWrite(fs, faults, Dirname(TagsManifestPath),
                           <<Step(TagsManifestPath, items, FALSE)>>, t)
    IN RevalidateResult(Some(items), w.fs, ld.tm, ld.reads, w.writes, w.mkdirs, "none")

\* TagIsStale without the comparison with lastModified.
TagIsStaleWheneverRevalidated(tm, tag, lastModified, t) ==
  /\ tm # None
  /\ tm[1][tag] # 0

\* tagsManifest?.items[tag]?.revalidatedAt &&
\*   tagsManifest?.items[tag].revalidatedAt >= (data?.lastModified || Date.now())
TagIsStale(tm, tag, lastModified, t) ==
  /\ tm # None
  /\ tm[1][tag] # 0
  /\ tm[1][tag] >= (IF lastModified # 0 THEN lastModified ELSE t)

\* ---------------------------------------------------------------------- get
\* The outcome of the persistent-tier read of get: data is None when get
\* returns null from inside the read; threw is the error the read lets
\* through to the caller of get.
ReadResult(data, mc, fs, reads, writes, mkdirs, threw) ==
  [data |-> data, mc |-> mc, fs |-> fs, writes |-> writes,
   threw |-> threw, mkdirs |-> mkdirs, reads |-> reads]

\* The fetch read; the write-back of the tags runs inside the try block, so
\* an error of its set is caught and get returns null.
\* The fetch read after its write-back this.set(...) with outcome sr: an
\* error of the set is caught by the catch of the read, which returns null;
\* otherwise the memory cache is populated with the data read.
WroteBack(sr, key, data, filePath) ==
  IF sr.threw # "none"
  THEN ReadResult(None, sr.mc, sr.fs, {filePath}, sr.writes, sr.mkdirs, "none")
  ELSE ReadResult(Some(data), MemSet(sr.mc, key, data), sr.fs, {filePath},
                  sr.writes, sr.mkdirs, "none")

ReadFetch(mc, fs, faults, flushToDisk, key, ctx, t) ==
  LET filePath == GetFilePath(<<key, "">>, FETCH)
      file == ReadFile(fs, faults, filePath)
  IN IF file = None \/ Fails(faults, "stat", filePath) \/ ~flushToDisk
     THEN ReadResult(None, mc, fs, {filePath}, {}, {}, "none")
     ELSE
       LET data == Entry(file[1].mtime, file[1].content)
           storedTags == data.value.tags
       IN IF ~(ctx.tags \subseteq storedTags)
          THEN WroteBack(SetOp(mc, fs, faults, flushToDisk, key, data.value,
                               Ctx(ctx.tags, {}, FETCH, ctx.isRoutePPREnabled, FALSE),
                               t),
                         key, data, filePath)
          ELSE ReadResult(Some(data), MemSet(mc, key, data), fs, {filePath}, {}, {},
                          "none")

\* The app page read; a metadata file that cannot be read or parsed leaves
\* meta undefined.
ReadAppPage(mc, fs, faults, key, ctx) ==
  LET filePath == GetFilePath(<<key, ".html">>, APP_PAGE)
      metaPath == ReplaceSuffix(filePath, ".html", NEXT_META_SUFFIX)
      rscPath == DataFilePath(key, TRUE, ctx.isRoutePPREnabled)
      file == ReadFile(fs, faults, filePath)
      noMeta == ctx.isFallback \/ ReadFile(fs, faults, metaPath) = None
      reads == {filePath} \cup (IF ctx.isFallback THEN {} ELSE {metaPath, rscPath})
  IN IF file = None \/ Fails(faults, "stat", filePath)
     THEN ReadResult(None, mc, fs, {filePath}, {}, {}, "none")
     ELSE IF ~ctx.isFallback /\ ReadFile(fs, faults, rscPath) = None
       THEN ReadResult(None, mc, fs, reads, {}, {}, "none")
     ELSE
       LET data ==
             Entry(file[1].mtime,
                   Value(APP_PAGE, file[1].content,
                         IF ctx.isFallback THEN "undefined" ELSE fs[rscPath][1].content,
                         IF noMeta THEN None ELSE fs[metaPath][1].content.headers,
                         IF noMeta THEN 0 ELSE fs[metaPath][1].content.status,
                         IF noMeta THEN "undefined" ELSE fs[metaPath][1].content.postponed,
                         {}))
       IN ReadResult(Some(data), MemSet(mc, key, data), fs, reads, {}, {}, "none")

ReadPages(mc, fs, faults, key, ctx) ==
  LET filePath == GetFilePath(<<key, ".html">>, PAGES)
      dataPath == DataFilePath(key, FALSE, ctx.isRoutePPREnabled)
      file == ReadFile(fs, faults, filePath)
      reads == {filePath} \cup (IF ctx.isFallback THEN {} ELSE {dataPath})
  IN IF file = None \/ Fails(faults, "stat", filePath)
     THEN ReadResult(None, mc, fs, {filePath}, {}, {}, "none")
     ELSE IF ~ctx.isFallback /\ ReadFile(fs, faults, dataPath) = None
       THEN ReadResult(None, mc, fs, reads, {}, {}, "none")
     ELSE
       LET data ==
             Entry(file[1].mtime,
                   Value(PAGES, file[1].content,
                         IF ctx.isFallback THEN "{}" ELSE fs[dataPath][1].content,
                         None, 0, "undefined", {}))
       IN ReadResult(Some(data), MemSet(mc, key, data), fs, reads, {}, {}, "none")

\* ReadAppRoute without its try/catch.
ReadAppRouteNoCatch(mc, fs, faults, key) ==
  LET filePath == GetFilePath(<<key, ".body">>, APP_ROUTE)
      metaPath == ReplaceSuffix(filePath, ".body", NEXT_META_SUFFIX)
      file == ReadFile(fs, faults, filePath)
  IN IF file = None \/ Fails(faults, "stat", filePath)
     THEN ReadResult(None, mc, fs, {filePath}, {}, {}, "io")
     ELSE IF ReadFile(fs, faults, metaPath) = None
       THEN ReadResult(None, mc, fs, {filePath, metaPath}, {}, {}, "io")
     ELSE ReadResult(
            Some(Entry(file[1].mtime,
                       Value(APP_ROUTE, file[1].content, "undefined",
                             fs[metaPath][1].content.headers,
                             fs[metaPath][1].content.status, "undefined", {}))),
            mc, fs, {filePath, metaPath}, {}, {}, "none")

\* The APP_ROUTE read returns its entry (or null) straight from get.
ReadAppRoute(mc, fs, faults, key) ==
  LET filePath == GetFilePath(<<key, ".body">>, APP_ROUTE)
      metaPath == ReplaceSuffix(filePath, ".body", NEXT_META_SUFFIX)
      file == ReadFile(fs, faults, filePath)
  IN IF file = None \/ Fails(faults, "stat", filePath)
     THEN ReadResult(None, mc, fs, {filePath}, {}, {}, "none")
     ELSE IF ReadFile(fs, faults, metaPath) = None
       THEN ReadResult(None, mc, fs, {filePath, metaPath}, {}, {}, "none")
     ELSE ReadResult(
            Some(Entry(file[1].mtime,
                       Value(APP_ROUTE, file[1].content, "undefined",
                             fs[metaPath][1].content.headers,
                             fs[metaPath][1].content.status, "undefined", {}))),
            mc, fs, {filePath, metaPath}, {}, {}, "none")

\* The read of a kind get has no case for: getFilePath throws for a kind
\* that is no IncrementalCacheKind; for IMAGE the content file is read and
\* the invariant error is thrown at the dispatch.  Both are thrown inside
\* the try block, whose catch returns null.
ReadUnknown(mc, fs, faults, key, ctx) ==
  IF GetFilePathThrows(ctx.kind) THEN ReadResult(None, mc, fs, {}, {}, {}, "none")
  ELSE ReadResult(None, mc, fs, {GetFilePath(<<key, ".html">>, ctx.kind)}, {}, {},
                  "none")

ReadDisk(mc, fs, faults, flushToDisk, key, ctx, t) ==
  CASE ctx.kind = APP_ROUTE -> ReadAppRoute(mc, fs, faults, key)
    [] ctx.kind = FETCH -> ReadFetch(mc, fs, faults, flushToDisk, key, ctx, t)
    [] ctx.kind = APP_PAGE -> ReadAppPage(mc, fs, faults, key, ctx)
    [] ctx.kind = PAGES -> ReadPages(mc, fs, faults, key, ctx)
    [] OTHER -> ReadUnknown(mc, fs, faults, key, ctx)

\* cacheTags of a page candidate: the split x-next-cache-tags header.
CacheTags(value) == IF value.headers = None THEN {} ELSE SplitTags(value.headers[1])

\* isStale of a page candidate.
IsStale(tm, data, t) ==
  \E tag \in CacheTags(data.value) : TagIsStale(tm, tag, data.lastModified, t)

\* WasRevalidated looking at the request tags only, not at the soft tags.
WasRevalidatedNoSoftTags(tm, revalidatedTags, data, ctx, t) ==
  \E tag \in ctx.tags :
     \/ tag \in revalidatedTags
     \/ TagIsStale(tm, tag, data.lastModified, t)

\* wasRevalidated of a fetch candidate.
WasRevalidated(tm, revalidatedTags, data, ctx, t) ==
  \E tag \in ctx.tags \cup ctx.softTags :
     \/ tag \in revalidatedTags
     \/ TagIsStale(tm, tag, data.lastModified, t)

\* The outcome of get: res is what get returns (None for null), cand the
\* candidate data the staleness rules were applied to, src where the
\* candidate came from, loaded the manifest right after loadTagsManifest
\* when get called it, threw the error raised to the caller.
GetResult(mc, tm, fs, res, cand, src, loaded, reads, writes, mkdirs, threw) ==
  [mc |-> mc, fs |-> fs, writes |-> writes, threw |-> threw, mkdirs |-> mkdirs,
   tm |-> tm, reads |-> reads, loaded |-> loaded, res |-> res, cand |-> cand,
   src |-> src]

\* Lines 328-380 of get: the staleness rules on the candidate data.
Judge(data, mc, tm, fs, faults, revalidatedTags, ctx, src, reads, writes, mkdirs, t) ==
  LET ld == LoadTagsManifest(tm, fs, faults)
  IN IF data.value.kind \in {APP_PAGE, PAGES}
     THEN IF CacheTags(data.value) # {}
          THEN GetResult(mc, ld.tm, fs,
                         IF IsStale(ld.tm, data, t) THEN None ELSE Some(data),
                         Some(data), src, Some(ld.tm), reads \cup ld.reads, writes,
                         mkdirs, "none")
          ELSE GetResult(mc, tm, fs, Some(data), Some(data), src, None,
                         reads, writes, mkdirs, "none")
     ELSE IF data.value.kind = FETCH
     THEN GetResult(mc, ld.tm, fs,
                    IF WasRevalidated(ld.tm, revalidatedTags, data, ctx, t)
                    THEN None ELSE Some(data),
                    Some(data), src, Some(ld.tm), reads \cup ld.reads, writes,
                    mkdirs, "none")
     ELSE GetResult(mc, tm, fs, Some(data), Some(data), src, None,
                    reads, writes, mkdirs, "none")

\* get after the read of the persistent tier with outcome rd, the files being
\* fs by then: a route response and a miss are returned as they are, other
\* data goes through the staleness rules.
AfterRead(rd, tm, fs, faults, revalidatedTags, ctx, t) ==
  IF ctx.kind = APP_ROUTE \/ rd.data = None
  THEN GetResult(rd.mc, tm, fs, rd.data, rd.data, "disk", None,
                 rd.reads, rd.writes, rd.mkdirs, rd.threw)
  ELSE Judge(rd.data[1], rd.mc, tm, fs, faults, revalidatedTags, ctx,
             "disk", rd.reads, rd.writes, rd.mkdirs, t)

\* AfterRead with the files as the read left them.
AfterReadOwnFiles(rd, tm, faults, revalidatedTags, ctx, t) ==
  AfterRead(rd, tm, rd.fs, faults, revalidatedTags, ctx, t)

\* get(key, ctx) at time t by an instance with the given flushToDisk and
\* revalidatedTags; in one step the files after the read are those the read
\* left.
GetOp(mc, tm, fs, faults, flushToDisk, revalidatedTags, key, ctx, t) ==
  IF MemGet(mc, key) # None
  THEN Judge(MemGet(mc, key)[1], MemTouch(mc, key), tm, fs, faults, revalidatedTags,
             ctx, "memory", {}, {}, {}, t)
  ELSE AfterReadOwnFiles(ReadDisk(mc, fs, faults, flushToDisk, key, ctx, t),
                         tm, faults, revalidatedTags, ctx, t)

\* ------------------------------------------------------------------- state
VARIABLES
  now,           \* Date.now()
  inst,          \* per process: the FileSystemCache instance in use
  memoryCache,   \* per process: the module-level memoryCache
  tagsManifest,  \* per process: the module-level tagsManifest
  disk,          \* the file system shared by the processes
  faults,        \* the calls of the fs capability that reject
  pending,       \* per process: a get suspended in its persistent-tier read
  last,          \* the last operation: its inputs, result and I/O
  setTags,       \* per key and page kind: the cache tags of the value that
                 \* set last wrote to the persistent tier
  revSinceSet    \* per key: the tags revalidated since the last set(key)

vars == <<now, inst, memoryCache, tagsManifest, disk, faults, pending, last,
          setTags, revSinceSet>>

NoCtx == Ctx({}, {}, "NONE", FALSE, FALSE)

\* The record of an operation.  value: the value handed to set; res, cand,
\* src, loaded: as in GetResult; threw: the error raised to the caller;
\* prev: for a get, the value and context of the set of the same key by the
\* same process that came right before it (for a resumed get: that completed
\* while the get was suspended).
Last(op, proc, key, ctx, value, res, cand, src, loaded, reads, writes, mkdirs, threw, prev) ==
  [value |-> value, key |-> key, writes |-> writes, threw |-> threw,
   mkdirs |-> mkdirs, ctx |-> ctx, reads |-> reads, loaded |-> loaded, res |-> res,
   cand |-> cand, src |-> src, op |-> op, proc |-> proc, prev |-> prev]

\* The fields of an instance; maxMemoryCacheSize is the ctx value it was
\* constructed with.
NoInstance ==
  [flushToDisk |-> FALSE, revalidatedTags |-> {}, constructed |-> FALSE,
   maxMemoryCacheSize |-> 0]

Init ==
  /\ now = 1
  /\ inst = [p \in Procs |-> NoInstance]
  /\ memoryCache = [p \in Procs |-> None]
  /\ tagsManifest = [p \in Procs |-> None]
  /\ disk = [path \in Paths |-> None]
  /\ faults = NoFaults
  /\ pending = [p \in Procs |-> None]
  /\ last = Last("init", "", "", NoCtx, None, None, None, "none", None, {}, {}, {},
                 "none", None)
  /\ setTags = [k \in Keys |-> [kind \in {APP_PAGE, PAGES} |-> {}]]
  /\ revSinceSet = [k \in Keys |-> {}]

\* Time passes between operations.
Tick ==
  /\ now < MaxTime
  /\ now' = now + 1
  /\ UNCHANGED <<inst, memoryCache, tagsManifest, disk, faults, pending, last,
                 setTags, revSinceSet>>

\* The environment: the fs calls in f reject from now on.
SetFaults(f) ==
  /\ faults # f
  /\ faults' = f
  /\ UNCHANGED <<now, inst, memoryCache, tagsManifest, disk, pending, last,
                 setTags, revSinceSet>>

\* ConstructMemoryCache creating a cache whenever a size is given.
ConstructMemoryCacheAlways(mc, maxMemoryCacheSize) ==
  IF maxMemoryCacheSize # 0 THEN Some(NewLRUCache(maxMemoryCacheSize)) ELSE mc

\* Lines 50-81 of the constructor: the memory cache is created when a size
\* is given and the process has none.
ConstructMemoryCache(mc, maxMemoryCacheSize) ==
  IF maxMemoryCacheSize # 0 /\ mc = None
  THEN Some(NewLRUCache(maxMemoryCacheSize)) ELSE mc

\* new FileSystemCache(ctx): creates the memory cache when a size is given
\* and none exists, and loads the tags manifest synchronously.
Construct(p, maxMemoryCacheSize, flushToDisk, revalidatedTags) ==
  \E ld \in {LoadTagsManifestSync(tagsManifest[p], disk, faults)} :
     /\ inst' = [inst EXCEPT ![p] = [flushToDisk |-> flushToDisk,
                                      revalidatedTags |-> revalidatedTags,
                                      constructed |-> TRUE,
                                      maxMemoryCacheSize |-> maxMemoryCacheSize]]
     /\ memoryCache' = [memoryCache EXCEPT ![p] =
                          ConstructMemoryCache(@, maxMemoryCacheSize)]
     /\ tagsManifest' = [tagsManifest EXCEPT ![p] = ld.tm]
     /\ last' = Last("construct", p, "", NoCtx, None, None, None, "none", Some(ld.tm),
                     ld.reads, {}, {}, "none", None)
     /\ UNCHANGED <<now, disk, faults, pending, setTags, revSinceSet>>

\* A get of the process that is suspended while a set of its key completes
\* has the value and context of that set noted.
NoteSet(pd, key, data, ctx) ==
  IF pd # None /\ pd[1].key = key
  THEN Some([pd[1] EXCEPT !.during = Some([value |-> data, ctx |-> ctx])])
  ELSE pd

Set(p, key, data, ctx) ==
  /\ inst[p].constructed
  /\ \E sr \in {SetOp(memoryCache[p], disk, faults, inst[p].flushToDisk, key, data,
                       ctx, now)} :
     /\ memoryCache' = [memoryCache EXCEPT ![p] = sr.mc]
     /\ disk' = sr.fs
     /\ pending' = [pending EXCEPT ![p] = NoteSet(@, key, data, ctx)]
     /\ last' = Last("set", p, key, ctx, Some(data), None, None, "none", None,
                     {}, sr.writes, sr.mkdirs, sr.threw, None)
     /\ setTags' = IF inst[p].flushToDisk /\ data.kind \in {APP_PAGE, PAGES}
                   THEN [setTags EXCEPT ![key][data.kind] = CacheTags(data)]
                   ELSE setTags
     /\ revSinceSet' = [revSinceSet EXCEPT ![key] = {}]
     /\ UNCHANGED <<now, inst, tagsManifest, faults>>

Get(p, key, ctx) ==
  /\ inst[p].constructed
  /\ \E gr \in {GetOp(memoryCache[p], tagsManifest[p], disk, faults,
                       inst[p].flushToDisk, inst[p].revalidatedTags, key, ctx, now)} :
     /\ memoryCache' = [memoryCache EXCEPT ![p] = gr.mc]
     /\ tagsManifest' = [tagsManifest EXCEPT ![p] = gr.tm]
     /\ disk' = gr.fs
     /\ last' = Last("get", p, key, ctx, None, gr.res, gr.cand, gr.src, gr.loaded,
                     gr.reads, gr.writes, gr.mkdirs, gr.threw,
                     IF last.op = "set" /\ last.proc = p /\ last.key = key
                     THEN Some([value |-> last.value[1], ctx |-> last.ctx])
                     ELSE None)
     /\ UNCHANGED <<now, inst, faults, pending, setTags, revSinceSet>>

\* The file system a resumed read leaves: the files the read wrote back, on
\* top of the files as they are now.
Overlay(fs, written, writes) ==
  [path \in Paths |-> IF path \in writes THEN written[path] ELSE fs[path]]

\* get(key, ctx) up to its first await: the key is not in the memory cache
\* (line 179) and the reads of the persistent tier are issued; they see the
\* files as they are at this point.
GetStart(p, key, ctx) ==
  /\ inst[p].constructed
  /\ pending[p] = None
  /\ MemGet(memoryCache[p], key) = None
  /\ pending' = [pending EXCEPT ![p] =
                   Some([key |-> key, fs |-> disk, ctx |-> ctx, during |-> None])]
  /\ last' = Last("getStart", p, key, ctx, None, None, None, "none", None,
                  {}, {}, {}, "none", None)
  /\ UNCHANGED <<now, inst, memoryCache, tagsManifest, disk, faults, setTags,
                 revSinceSet>>

\* The suspended get of process p resumes after its reads: lines 218-380 on
\* the files it read, with the memory cache and the manifest as they are now.
GetFinish(p) ==
  /\ pending[p] # None
  /\ LET pd == pending[p][1]
     IN \E rd \in {ReadDisk(memoryCache[p], pd.fs, faults, inst[p].flushToDisk,
                            pd.key, pd.ctx, now)} :
        \E gr \in {AfterRead(rd, tagsManifest[p], Overlay(disk, rd.fs, rd.writes),
                             faults, inst[p].revalidatedTags, pd.ctx, now)} :
           /\ memoryCache' = [memoryCache EXCEPT ![p] = gr.mc]
           /\ tagsManifest' = [tagsManifest EXCEPT ![p] = gr.tm]
           /\ disk' = gr.fs
           /\ pending' = [pending EXCEPT ![p] = None]
           /\ last' = Last("getResume", p, pd.key, pd.ctx, None, gr.res, gr.cand,
                           gr.src, gr.loaded, gr.reads, gr.writes, gr.mkdirs,
                           gr.threw, pd.during)
           /\ UNCHANGED <<now, inst, faults, setTags, revSinceSet>>

RevalidateTag(p, tags) ==
  /\ inst[p].constructed
  /\ \E rr \in {RevalidateTagOp(tagsManifest[p], disk, faults, tags, now)} :
     /\ tagsManifest' = [tagsManifest EXCEPT ![p] = rr.tm]
     /\ disk' = rr.fs
     /\ last' = Last("revalidateTag", p, "", Ctx(tags, {}, "NONE", FALSE, FALSE),
                     None, None, None, "none",
                     IF tags = {} THEN None ELSE Some(rr.loaded),
                     rr.reads, rr.writes, rr.mkdirs, rr.threw, None)
     /\ revSinceSet' = [k \in Keys |-> revSinceSet[k] \cup tags]
     /\ UNCHANGED <<now, inst, memoryCache, faults, pending, setTags>>

\* ------------------------------------------------------------------ inputs
\* The x-next-cache-tags header of the values handed to set.
HeaderChoices == {None, Some(<<"a">>)}

\* ctx.revalidatedTags of the instances constructed.
RevalidatedTagChoices == {{}, {"b"}}

FetchValues(bodies, tags) ==
  {Value(FETCH, b, "undefined", None, 0, "undefined", tags) : b \in bodies}

PageValues(bodies, kind) ==
  {Value(kind, b, "d", h, 200, "undefined", {}) : b \in bodies, h \in HeaderChoices}

RouteValues(bodies) ==
  {Value(APP_ROUTE, b, "undefined", h, 200, "undefined", {}) :
     b \in bodies, h \in HeaderChoices}

\* A process constructs its cache handler once.
ConstructOnce(p, sizes, flushes, revs) ==
  /\ ~inst[p].constructed
  /\ \E max \in sizes, flush \in flushes, rev \in revs : Construct(p, max, flush, rev)

\* A process constructs a cache handler, again and again.
ConstructAny(p, sizes, flushes, revs) ==
  \E max \in sizes, flush \in flushes, rev \in revs : Construct(p, max, flush, rev)

SetFetchAny(p, keys, bodies, tagSets) ==
  \E key \in keys, tags \in tagSets :
    \E data \in FetchValues(bodies, tags) :
       Set(p, key, data, Ctx(tags, {}, FETCH, FALSE, FALSE))

GetFetchAny(p, keys, tagSets, softSets) ==
  \E key \in keys, tags \in tagSets, soft \in softSets :
     Get(p, key, Ctx(tags, soft, FETCH, FALSE, FALSE))

SetPageAny(p, keys, bodies, kinds, fbs, pprs) ==
  \E key \in keys, kind \in kinds, fb \in fbs, ppr \in pprs :
    \E data \in PageValues(bodies, kind) :
       Set(p, key, data, Ctx({}, {}, kind, ppr, fb))

GetPageAny(p, keys, kinds, fbs, pprs) ==
  \E key \in keys, kind \in kinds, fb \in fbs, ppr \in pprs :
     Get(p, key, Ctx({}, {}, kind, ppr, fb))

SetRouteAny(p, keys, bodies) ==
  \E key \in keys : \E data \in RouteValues(bodies) :
     Set(p, key, data, Ctx({}, {}, APP_ROUTE, FALSE, FALSE))

GetRouteAny(p, keys) ==
  \E key \in keys : Get(p, key, Ctx({}, {}, APP_ROUTE, FALSE, FALSE))

GetStartFetchAny(p, keys, tagSets, softSets) ==
  \E key \in keys, tags \in tagSets, soft \in softSets :
     GetStart(p, key, Ctx(tags, soft, FETCH, FALSE, FALSE))

RevalidateAny(p, tagSets) == \E tags \in tagSets : RevalidateTag(p, tags)

SetFaultsAny(faultSets) == \E f \in faultSets : SetFaults(f)

\* set(key, null, ctx): a recorded miss.
SetNullAny(p, keys, kinds) ==
  \E key \in keys, kind \in kinds :
     Set(p, key, NullValue, Ctx({}, {}, kind, FALSE, FALSE))

\* set of a value of a kind that set has no case for.
SetUnknownAny(p, keys, bodies, kinds) ==
  \E key \in keys, b \in bodies, kind \in kinds :
     Set(p, key, Value(kind, b, "undefined", None, 0, "undefined", {}),
         Ctx({}, {}, kind, FALSE, FALSE))

\* get of a kind that get has no case for.
GetUnknownAny(p, keys, kinds) ==
  \E key \in keys, kind \in kinds : Get(p, key, Ctx({}, {}, kind, FALSE, FALSE))

\* The content file that get reads the modification time of, per kind.
ContentPath(key, kind) ==
  IF kind = FETCH THEN GetFilePath(<<key, "">>, FETCH)
  ELSE IF kind = APP_ROUTE THEN GetFilePath(<<key, ".body">>, APP_ROUTE)
  ELSE GetFilePath(<<key, ".html">>, kind)

\* The metadata sidecar of a route or an app page.
MetaPath(key) == GetFilePath(<<key, NEXT_META_SUFFIX>>, APP_PAGE)

\* One rejecting read call at a time: the read of an artifact file, or the
\* stat of a content file.
ReadFaultChoices ==
  {NoFaults}
    \cup {{Fault("readFile", path)} : path \in Paths \ {TagsManifestPath}}
    \cup {{Fault("stat", ContentPath(k, kind))} : k \in Keys, kind \in Kinds}

\* ----------------------------------------------------------- specifications
\* One process, fetch entries of one key.
NextFetch ==
  \/ Tick
  \/ ConstructOnce("A", MemorySizes, BOOLEAN, RevalidatedTagChoices)
  \/ SetFetchAny("A", {"k1"}, {"x"}, SUBSET Tags)
  \/ GetFetchAny("A", {"k1"}, SUBSET Tags, {{}, {"b"}})
  \/ RevalidateAny("A", SUBSET Tags)

SpecFetch == Init /\ [][NextFetch]_vars

\* One process, app-style and legacy-style pages of one key.
NextPages ==
  \/ Tick
  \/ ConstructOnce("A", MemorySizes, BOOLEAN, {{}})
  \/ SetPageAny("A", {"k1"}, {"x"}, {APP_PAGE, PAGES}, BOOLEAN, BOOLEAN)
  \/ GetPageAny("A", {"k1"}, {APP_PAGE, PAGES}, BOOLEAN, BOOLEAN)
  \/ RevalidateAny("A", {{}, {"a"}})

SpecPages == Init /\ [][NextPages]_vars

\* Two processes sharing the file system: A caches a fetch entry and an app
\* page, both processes revalidate tags.
NextTwo ==
  \/ Tick
  \/ ConstructOnce("A", MemorySizes, {TRUE}, {{}})
  \/ ConstructOnce("B", {0}, {TRUE}, {{}})
  \/ SetFetchAny("A", {"k1"}, {"x"}, {{"a"}})
  \/ GetFetchAny("A", {"k1"}, {{"a"}}, {{}})
  \/ SetPageAny("A", {"k1"}, {"x"}, {APP_PAGE}, {FALSE}, {FALSE})
  \/ GetPageAny("A", {"k1"}, {APP_PAGE}, {FALSE}, {FALSE})
  \/ RevalidateAny("A", {{}, {"a"}, {"b"}})
  \/ RevalidateAny("B", {{}, {"a"}, {"b"}})

SpecTwo == Init /\ [][NextTwo]_vars

\* One process, the entries that have staleness rules (fetch entries, app-style
\* and legacy-style pages) on one key.
NextStale ==
  \/ Tick
  \/ ConstructOnce("A", MemorySizes, {TRUE}, RevalidatedTagChoices)
  \/ SetFetchAny("A", {"k1"}, {"x"}, {{"a"}})
  \/ GetFetchAny("A", {"k1"}, {{"a"}}, {{}, {"b"}})
  \/ SetPageAny("A", {"k1"}, {"x"}, {APP_PAGE, PAGES}, {FALSE}, {FALSE})
  \/ GetPageAny("A", {"k1"}, {APP_PAGE, PAGES}, {FALSE}, {FALSE})
  \/ RevalidateAny("A", {{"a"}, {"b"}})

SpecStale == Init /\ [][NextStale]_vars

\* ctx.maxMemoryCacheSize of the instances of a process that constructs
\* several: none, and two different sizes.
InstanceSizes == {0, 2, 3}

\* One process that constructs cache handlers repeatedly, the latest one
\* serving the entries of one key: fetch entries, pages and route responses.
NextInstances ==
  \/ ConstructAny("A", InstanceSizes, BOOLEAN, {{}})
  \/ SetFetchAny("A", {"k1"}, Bodies, {{}})
  \/ GetFetchAny("A", {"k1"}, {{}}, {{}})
  \/ SetPageAny("A", {"k1"}, {"x"}, {APP_PAGE, PAGES}, {FALSE}, {FALSE})
  \/ GetPageAny("A", {"k1"}, {APP_PAGE, PAGES}, {FALSE}, {FALSE})
  \/ SetRouteAny("A", {"k1"}, {"x"})
  \/ GetRouteAny("A", {"k1"})

SpecInstances == Init /\ [][NextInstances]_vars

\* ctx.maxMemoryCacheSize of the instances that cache recorded misses: none,
\* one that holds a fetch entry but not a null value (of length 25), and one
\* that holds both.
SetSizes == {0, 3, 30}

\* One process that sets fetch entries and recorded misses of one key, with
\* or without persistent writes, while the write of the fetch file may reject.
NextSet ==
  \/ Tick
  \/ ConstructOnce("A", SetSizes, BOOLEAN, {{}})
  \/ SetFetchAny("A", {"k1"}, Bodies, {{}})
  \/ SetNullAny("A", {"k1"}, {FETCH})
  \/ GetFetchAny("A", {"k1"}, {{}}, {{}})
  \/ SetFaultsAny({NoFaults, {Fault("writeFile", ContentPath("k1", FETCH))},
                   {Fault("mkdir", DirPath("cache/fetch-cache"))}})

SpecSet == Init /\ [][NextSet]_vars

\* One process, app pages of one key next to values and requests of the
\* kinds the handler has no case for: IMAGE and REDIRECT values, and requests
\* of kind IMAGE and of a kind that is no member of IncrementalCacheKind.
NextUnknown ==
  \/ Tick
  \/ ConstructOnce("A", MemorySizes, BOOLEAN, {{}})
  \/ SetPageAny("A", {"k1"}, {"x"}, {APP_PAGE}, {FALSE}, {FALSE})
  \/ GetPageAny("A", {"k1"}, {APP_PAGE}, {FALSE}, {FALSE})
  \/ SetUnknownAny("A", {"k1"}, {"x"}, {IMAGE, REDIRECT})
  \/ GetUnknownAny("A", {"k1"}, {IMAGE, "UNKNOWN"})

SpecUnknown == Init /\ [][NextUnknown]_vars

\* Process A, with a memory tier, sets and gets the fetch entries of one key,
\* its gets suspending in the read of the persistent tier; process B, on the
\* same file system, sets entries of the key too.
NextInterleave ==
  \/ ConstructOnce("A", {3}, {TRUE}, {{}})
  \/ ConstructOnce("B", {0}, {TRUE}, {{}})
  \/ SetFetchAny("A", {"k1"}, Bodies, {{}, {"a"}})
  \/ SetFetchAny("B", {"k1"}, Bodies, {{}})
  \/ GetFetchAny("A", {"k1"}, {{}}, {{}})
  \/ GetStartFetchAny("A", {"k1"}, {{}, {"a"}}, {{}})
  \/ GetFinish("A")

SpecInterleave == Init /\ [][NextInterleave]_vars

\* One rejecting write call at a time: the write of an artifact file or of
\* the manifest, or the creation of a directory.
WriteFaultChoices ==
  {NoFaults}
    \cup {{Fault("writeFile", path)} :
            path \in {TagsManifestPath, ContentPath("k1", FETCH),
                      ContentPath("k1", APP_PAGE), MetaPath("k1")}}
    \cup {{Fault("mkdir", DirPath(dir))} : dir \in {"cache/fetch-cache", "app"}}

\* One process, fetch entries and app pages of one key, with writes of the
\* persistent tier that reject.
NextWriteFaults ==
  \/ ConstructOnce("A", MemorySizes, BOOLEAN, {{}})
  \/ SetFetchAny("A", {"k1"}, {"x"}, {{"a"}})
  \/ GetFetchAny("A", {"k1"}, {{"a"}, {"b"}}, {{}})
  \/ SetPageAny("A", {"k1"}, {"x"}, {APP_PAGE}, {FALSE}, {FALSE})
  \/ GetPageAny("A", {"k1"}, {APP_PAGE}, {FALSE}, {FALSE})
  \/ SetNullAny("A", {"k1"}, {FETCH})
  \/ RevalidateAny("A", {{}, {"a"}})
  \/ SetFaultsAny(WriteFaultChoices)

SpecWriteFaults == Init /\ [][NextWriteFaults]_vars

\* One process, every kind of entry on one key, with reads of the persistent
\* tier that reject.
NextReadFaults ==
  \/ ConstructOnce("A", MemorySizes, {TRUE}, {{}})
  \/ SetFetchAny("A", {"k1"}, {"x"}, {{"a"}})
  \/ GetFetchAny("A", {"k1"}, {{"a"}}, {{}})
  \/ SetPageAny("A", {"k1"}, {"x"}, {APP_PAGE, PAGES}, {FALSE}, {FALSE})
  \/ GetPageAny("A", {"k1"}, {APP_PAGE, PAGES}, BOOLEAN, {FALSE})
  \/ SetRouteAny("A", {"k1"}, {"x"})
  \/ GetRouteAny("A", {"k1"})
  \/ SetFaultsAny(ReadFaultChoices)

SpecReadFaults == Init /\ [][NextReadFaults]_vars

\* One process, every kind of entry on one key.
Next ==
  \/ Tick
  \/ ConstructOnce("A", MemorySizes, {TRUE}, RevalidatedTagChoices)
  \/ SetFetchAny("A", {"k1"}, {"x"}, {{"a"}})
  \/ GetFetchAny("A", {"k1"}, {{"a"}}, {{}, {"b"}})
  \/ SetPageAny("A", {"k1"}, {"x"}, {APP_PAGE, PAGES}, {FALSE}, {FALSE})
  \/ GetPageAny("A", {"k1"}, {APP_PAGE, PAGES}, {FALSE}, {FALSE})
  \/ SetRouteAny("A", {"k1"}, {"x"})
  \/ GetRouteAny("A", {"k1"})
  \/ RevalidateAny("A", {{}, {"a"}})

Spec == Init /\ [][Next]_vars

\* ------------------------------------------------------------------- claims
\* revalidateTag([t]) was recorded by the process of the last operation at a
\* time at or after lastModified.
RevalidatedSince(t, lastModified) ==
  /\ tagsManifest[last.proc] # None
  /\ tagsManifest[last.proc][1][t] # 0
  /\ tagsManifest[last.proc][1][t] >= lastModified

\* The tags associated with the candidate of the last get: the request and
\* soft tags of a fetch entry, the cache tags a page entry was stored with.
AssociatedTags ==
  LET c == last.cand[1]
  IN IF c.value.kind = FETCH THEN last.ctx.tags \cup last.ctx.softTags
     ELSE IF last.src = "memory" \/ c.value.kind = APP_ROUTE THEN CacheTags(c.value)
     ELSE setTags[last.key][c.value.kind]

\* C1: within one process, when a tag associated with a cached entry was
\* revalidated at a time at or after the entry's lastModified, the next get
\* for the entry returns absence, whether the candidate came from the memory
\* tier or from the persistent tier (stated for reads that are not fallback
\* reads).
C1_RevalidatedEntryIsAbsent ==
  (/\ last.op = "get"
   /\ last.cand # None
   /\ ~last.ctx.isFallback
   /\ \E t \in AssociatedTags : RevalidatedSince(t, last.cand[1].lastModified))
  => last.res = None

\* C2: once a tag was revalidated after the set that stored a fetch key,
\* every later get of the key that requests the tag returns absence until a
\* new set stores the key.
C2_NoFetchServedPastRevalidation ==
  (/\ last.op = "get"
   /\ last.ctx.kind = FETCH
   /\ last.ctx.tags \cap revSinceSet[last.key] # {})
  => last.res = None

\* The tags revalidated in the manifest file at or after lastModified.
RevalidatedOnDisk(t, lastModified) ==
  /\ disk[TagsManifestPath] # None
  /\ disk[TagsManifestPath][1].content[t] # 0
  /\ disk[TagsManifestPath][1].content[t] >= lastModified

\* The tags the staleness rules of get look at for the candidate.
CandidateTags ==
  LET c == last.cand[1]
  IN IF c.value.kind = FETCH THEN last.ctx.tags \cup last.ctx.softTags
     ELSE CacheTags(c.value)

\* C3: a get decides staleness by the manifest file as it is at decision
\* time: when the file records a revalidation of a tag of the candidate at or
\* after the candidate's lastModified (also one made by another process after
\* this process loaded its manifest), get returns absence.
C3_GetUsesManifestOnDisk ==
  (/\ last.op = "get"
   /\ last.cand # None
   /\ last.cand[1].value.kind \in {FETCH, APP_PAGE, PAGES}
   /\ \E t \in CandidateTags : RevalidatedOnDisk(t, last.cand[1].lastModified))
  => last.res = None

\* C4: the manifest file written by revalidateTag with a non-empty tag list
\* still contains every other tag, with its revalidatedAt, that the file
\* held before the call.
C4_ManifestWriteKeepsOtherTags ==
  [][(/\ now' = now
      /\ last'.op = "revalidateTag"
      /\ last'.ctx.tags # {}
      /\ disk[TagsManifestPath] # None)
     => \A t \in Tags \ last'.ctx.tags :
           disk'[TagsManifestPath][1].content[t] = disk[TagsManifestPath][1].content[t]]_vars

\* C5: the write-back that get makes for a fetch entry whose stored tags do
\* not cover the requested tags leaves the stored tags equal to the union of
\* the stored and the requested tags.
C5_WriteBackUnionsTags ==
  [][\A key \in Keys :
       LET filePath == GetFilePath(<<key, "">>, FETCH)
       IN (/\ now' = now
           /\ last'.op = "get"
           /\ last'.key = key
           /\ last'.ctx.kind = FETCH
           /\ filePath \in last'.writes)
          => disk'[filePath][1].content.tags =
               disk[filePath][1].content.tags \cup last'.ctx.tags]_vars

\* body, data payload, headers and status of two values agree.
SameContent(v, w) ==
  /\ v.body = w.body
  /\ v.data = w.data
  /\ v.headers = w.headers
  /\ v.status = w.status

\* C6: a get right after a set of the same key in the same process, with the
\* same context, no tag of the entry ever revalidated, returns an entry with
\* the content handed to set, from the memory tier or (persistent writes
\* enabled) from the persistent tier (stated without fallback reads).
C6_SetThenGetSameContent ==
  (/\ last.op = "get"
   /\ last.prev # None
   /\ last.prev[1].ctx = last.ctx
   /\ last.prev[1].value.kind = last.ctx.kind
   /\ ~last.ctx.isFallback
   /\ last.src = "memory" \/ inst[last.proc].flushToDisk
   /\ inst[last.proc].revalidatedTags = {}
   /\ \A t \in Tags : tagsManifest[last.proc] = None \/ tagsManifest[last.proc][1][t] = 0)
  => /\ last.res # None
     /\ SameContent(last.res[1].value, last.prev[1].value)

\* C7: get returns its candidate when no tag the staleness rules look at has
\* a revalidatedAt, in the manifest of the process, at or after the
\* candidate's lastModified and, for a fetch candidate, no request or soft
\* tag is in the instance's revalidatedTags.
C7_FreshEntryIsReturned ==
  (/\ last.op = "get"
   /\ last.cand # None
   /\ \A t \in CandidateTags : ~RevalidatedSince(t, last.cand[1].lastModified)
   /\ last.cand[1].value.kind = FETCH
        => (last.ctx.tags \cup last.ctx.softTags)
             \cap inst[last.proc].revalidatedTags = {})
  => last.res = last.cand

\* A get returned a candidate one of whose tags had been revalidated before
\* the candidate was stored.
C7_Witness ==
  /\ last.op = "get"
  /\ last.res # None
  /\ \E t \in CandidateTags :
        /\ tagsManifest[last.proc][1][t] # 0
        /\ tagsManifest[last.proc][1][t] < last.res[1].lastModified

\* The data-payload files of a key.
DataFiles(key) ==
  {DataFilePath(key, TRUE, TRUE), DataFilePath(key, TRUE, FALSE),
   DataFilePath(key, FALSE, FALSE)}

\* C8: a set of a page with isFallback writes no data-payload file, and a get
\* with isFallback reads none.
C8_FallbackSkipsDataFile ==
  (/\ last.op \in {"set", "get"}
   /\ last.ctx.kind \in {APP_PAGE, PAGES}
   /\ last.ctx.isFallback)
  => DataFiles(last.key) \cap (last.reads \cup last.writes) = {}

\* A fallback set wrote a page to the persistent tier and the fallback get
\* that followed read it from there, while a data-payload file of the key
\* was on disk.
C8_Witness ==
  /\ last.op = "get"
  /\ last.ctx.isFallback
  /\ last.prev # None
  /\ last.prev[1].ctx.isFallback
  /\ last.src = "disk"
  /\ last.res # None
  /\ \E path \in DataFiles(last.key) : disk[path] # None

C10_EmptyRevalidateIsNoOp ==
  [][(/\ now' = now
      /\ last'.op = "revalidateTag"
      /\ last'.ctx.tags = {})
     => /\ last'.reads = {}
        /\ last'.writes = {}
        /\ last'.mkdirs = {}
        /\ tagsManifest' = tagsManifest
        /\ disk' = disk]_vars

\* revalidateTag([]) was called in a process whose manifest has an item.
C10_Witness ==
  /\ last.op = "revalidateTag"
  /\ last.ctx.tags = {}
  /\ \E t \in Tags : tagsManifest[last.proc][1][t] # 0

\* A step that is an operation of a handler (time and the faults stay).
OpStep == now' = now /\ faults' = faults

\* A read that get(key, ctx) makes on the persistent tier fails: the content
\* file cannot be read or parsed, its stat rejects, or a sidecar or data file
\* the kind reads cannot be read or parsed.  withAppMeta: count the metadata
\* sidecar of an app page.
ReadFailure(key, ctx, withAppMeta) ==
  LET unreadable(path) == ReadFile(disk, faults, path) = None
  IN \/ unreadable(ContentPath(key, ctx.kind))
     \/ Fails(faults, "stat", ContentPath(key, ctx.kind))
     \/ ctx.kind = APP_ROUTE /\ unreadable(MetaPath(key))
     \/ ctx.kind = APP_PAGE /\ ~ctx.isFallback
          /\ unreadable(DataFilePath(key, TRUE, ctx.isRoutePPREnabled))
     \/ ctx.kind = APP_PAGE /\ ~ctx.isFallback /\ withAppMeta
          /\ unreadable(MetaPath(key))
     \/ ctx.kind = PAGES /\ ~ctx.isFallback
          /\ unreadable(DataFilePath(key, FALSE, ctx.isRoutePPREnabled))

\* C11 as stated: a get that misses the memory tier and meets any failure of
\* a read of the persistent tier (content, stat, sidecar, data file, parse)
\* returns absence, and no get raises an error.
C11_ReadFailureIsAbsence ==
  [][(OpStep /\ last'.op = "get")
     => /\ last'.threw = "none"
        /\ (/\ MemGet(memoryCache[last'.proc], last'.key) = None
            /\ ReadFailure(last'.key, last'.ctx, TRUE))
           => last'.res = None]_vars

\* C11 amended: as C11, except that a metadata sidecar of an app page that
\* cannot be read or parsed is no failure: when it is the only read that
\* fails, get returns the page with headers, status and postponed undefined.
C11_ReadFailureIsAbsenceButAppMeta ==
  [][(OpStep /\ last'.op = "get")
     => /\ last'.threw = "none"
        /\ (/\ MemGet(memoryCache[last'.proc], last'.key) = None
            /\ ReadFailure(last'.key, last'.ctx, FALSE))
           => last'.res = None
        /\ (/\ MemGet(memoryCache[last'.proc], last'.key) = None
            /\ last'.ctx.kind = APP_PAGE
            /\ ~ReadFailure(last'.key, last'.ctx, FALSE)
            /\ ReadFailure(last'.key, last'.ctx, TRUE))
           => /\ last'.res # None
              /\ last'.res[1].value.headers = None
              /\ last'.res[1].value.status = 0
              /\ last'.res[1].value.postponed = "undefined"]_vars

\* A get returned absence because a call on a file that is on disk rejected.
C11_Witness ==
  /\ last.op = "get"
  /\ last.src = "disk"
  /\ last.res = None
  /\ last.threw = "none"
  /\ \E path \in last.reads :
        /\ disk[path] # None
        /\ Fails(faults, "readFile", path) \/ Fails(faults, "stat", path)

\* The artifact files that set(key, data, ctx) writes.
SetPaths(key, data, ctx) ==
  IF data.kind \notin Kinds THEN {}
  ELSE {ContentPath(key, data.kind)}
         \cup (IF data.kind \in {APP_PAGE, PAGES} /\ ~ctx.isFallback
               THEN {DataFilePath(key, data.kind = APP_PAGE, ctx.isRoutePPREnabled)}
               ELSE {})
         \cup (IF data.kind \in {APP_PAGE, APP_ROUTE} THEN {MetaPath(key)} ELSE {})

\* A call that the artifact write of set(key, data, ctx) makes rejects: the
\* creation of the directory or the write of one of the files.
ArtifactWriteRejects(key, data, ctx) ==
  /\ data.kind \in Kinds
  /\ \/ Fails(faults, "mkdir", DirPath(Dirname(ContentPath(key, data.kind))))
     \/ \E path \in SetPaths(key, data, ctx) : Fails(faults, "writeFile", path)

\* get(key, ctx) by process p reads a fetch entry from the persistent tier
\* whose stored tags do not cover the requested tags, and so writes it back.
WritesBack(p, key, ctx) ==
  LET filePath == ContentPath(key, FETCH)
  IN /\ ctx.kind = FETCH
     /\ inst[p].flushToDisk
     /\ MemGet(memoryCache[p], key) = None
     /\ ReadFile(disk, faults, filePath) # None
     /\ ~Fails(faults, "stat", filePath)
     /\ ~(ctx.tags \subseteq disk[filePath][1].content.tags)

\* C12: when a call of an artifact write rejects, the operation that
\* triggered the write raises the error to its caller: a set with persistent
\* writes enabled, and a get that writes the tags of a fetch entry back.
C12_ArtifactWriteFailurePropagates ==
  [][/\ (/\ OpStep
         /\ last'.op = "set"
         /\ inst[last'.proc].flushToDisk
         /\ ArtifactWriteRejects(last'.key, last'.value[1], last'.ctx))
        => last'.threw = "io"
     /\ (/\ OpStep
         /\ last'.op = "get"
         /\ WritesBack(last'.proc, last'.key, last'.ctx)
         /\ ArtifactWriteRejects(last'.key, disk[ContentPath(last'.key, FETCH)][1].content,
                                 last'.ctx))
        => last'.threw = "io"]_vars

\* A call that the manifest write of revalidateTag makes rejects.
ManifestWriteRejects ==
  \/ Fails(faults, "mkdir", DirPath(Dirname(TagsManifestPath)))
  \/ Fails(faults, "writeFile", TagsManifestPath)

\* C13: when the creation of the manifest directory or the write of the
\* manifest file rejects during revalidateTag, the call completes normally:
\* no error reaches its caller.
C13_ManifestWriteFailureAbsorbed ==
  [][(/\ OpStep
      /\ last'.op = "revalidateTag"
      /\ last'.ctx.tags # {}
      /\ ManifestWriteRejects)
     => last'.threw = "none"]_vars

\* A revalidateTag of a tag has completed normally although its manifest
\* write was rejected.
C13_Witness ==
  /\ last.op = "revalidateTag"
  /\ last.ctx.tags # {}
  /\ ManifestWriteRejects
  /\ TagsManifestPath \notin last.writes
  /\ last.threw = "none"

\* C14: when the manifest write rejects during revalidateTag(tags), the tags
\* are not marked: the manifest of the process and the manifest file hold the
\* same revalidatedAt values as before the call.
C14_FailedRevalidationMarksNothing ==
  [][(/\ OpStep
      /\ last'.op = "revalidateTag"
      /\ last'.ctx.tags # {}
      /\ ManifestWriteRejects
      /\ tagsManifest[last'.proc] # None)
     => /\ tagsManifest'[last'.proc] = tagsManifest[last'.proc]
        /\ disk'[TagsManifestPath] = disk[TagsManifestPath]]_vars

\* C15: over the constructions of cache instances in one process at most one
\* memory tier is created: a construction creates it only when the process
\* has none and a capacity is given, no step replaces or resizes it, and
\* every instance, whatever capacity it was constructed with, writes its sets
\* to it and serves its gets from it.
C15_OneMemoryTierPerProcess ==
  [][\A p \in Procs :
       /\ memoryCache[p] # None
            => /\ memoryCache'[p] # None
               /\ memoryCache'[p][1].max = memoryCache[p][1].max
       /\ (OpStep /\ last'.op = "construct" /\ last'.proc = p)
            => memoryCache'[p] =
                 IF memoryCache[p] # None THEN memoryCache[p]
                 ELSE IF inst'[p].maxMemoryCacheSize # 0
                      THEN Some(NewLRUCache(inst'[p].maxMemoryCacheSize))
                      ELSE None
       /\ (OpStep /\ last'.op = "set" /\ last'.proc = p /\ memoryCache[p] # None)
            => MemGet(memoryCache'[p], last'.key) = Some(Entry(now, last'.value[1]))
       /\ (/\ OpStep /\ last'.op = "get" /\ last'.proc = p
           /\ MemGet(memoryCache[p], last'.key) # None)
            => /\ last'.src = "memory"
               /\ last'.cand = MemGet(memoryCache[p], last'.key)]_vars

\* The latest instance of the process was constructed without a capacity and
\* has served a get from the memory tier that an earlier construction created.
C15_Witness ==
  /\ inst["A"].constructed
  /\ inst["A"].maxMemoryCacheSize = 0
  /\ memoryCache["A"] # None
  /\ last.op = "get"
  /\ last.src = "memory"
  /\ last.cand # None

\* C16: when a get misses the memory tier and reads the entry from the
\* persistent tier, the memory tier holds the entry for the key when get
\* returns, for every kind of entry.
C16_DiskHitPopulatesMemory ==
  (/\ last.op = "get"
   /\ last.src = "disk"
   /\ last.cand # None
   /\ memoryCache[last.proc] # None)
  => MemGet(memoryCache[last.proc], last.key) = last.cand

\* The tag is in the revalidatedTags list of the instance of process p.
InRevalidatedList(p, tag) == tag \in inst[p].revalidatedTags

\* C17: get returns absence for a fetch candidate exactly when some tag of
\* the request tags and the soft tags is in the revalidatedTags list of the
\* instance or has a revalidatedAt in the manifest at or after the
\* lastModified of the candidate.
C17_FetchRevalidatedIffListedOrStale ==
  (/\ last.op = "get"
   /\ last.cand # None
   /\ last.cand[1].value.kind = FETCH)
  => (last.res = None
        <=> \E tag \in last.ctx.tags \cup last.ctx.softTags :
               \/ InRevalidatedList(last.proc, tag)
               \/ RevalidatedSince(tag, last.cand[1].lastModified))

\* A get found a fetch candidate and returned absence only because a soft tag
\* is in the revalidatedTags list: no tag of the request has a revalidatedAt
\* at or after the lastModified of the candidate.
C17_Witness ==
  /\ last.op = "get"
  /\ last.cand # None
  /\ last.cand[1].value.kind = FETCH
  /\ last.res = None
  /\ \E tag \in last.ctx.softTags : InRevalidatedList(last.proc, tag)
  /\ \A tag \in last.ctx.tags \cup last.ctx.softTags :
        ~RevalidatedSince(tag, last.cand[1].lastModified)

\* C18: set stores the entry, timestamped with the current time, in the
\* memory tier whether or not persistent writes are enabled and whether or
\* not the persistent write succeeds; with persistent writes disabled, or
\* with a null value, set creates no directory and writes no file.
C18_SetWritesMemoryFirst ==
  [][(OpStep /\ last'.op = "set")
     => /\ memoryCache'[last'.proc] =
             MemSet(memoryCache[last'.proc], last'.key, Entry(now, last'.value[1]))
        /\ (/\ memoryCache[last'.proc] # None
            /\ Length(last'.value[1]) <= memoryCache[last'.proc][1].max)
           => MemGet(memoryCache'[last'.proc], last'.key)
                = Some(Entry(now, last'.value[1]))
        /\ (~inst[last'.proc].flushToDisk \/ last'.value[1] = NullValue)
           => /\ last'.writes = {}
              /\ last'.mkdirs = {}
              /\ last'.threw = "none"
              /\ disk' = disk]_vars

\* A set by an instance with persistent writes disabled has stored a fetch
\* entry in the memory tier at a time after the first, the persistent tier
\* holding no file for the key.
C18_Witness ==
  /\ last.op = "set"
  /\ ~inst[last.proc].flushToDisk
  /\ last.value[1].kind = FETCH
  /\ now > 1
  /\ MemGet(memoryCache[last.proc], last.key) = Some(Entry(now, last.value[1]))
  /\ disk[ContentPath(last.key, FETCH)] = None

\* get(key, ctx) by process p reaches the dispatch on ctx.kind with a kind it
\* has no case for: the key is not in the memory tier, and either the kind is
\* no IncrementalCacheKind (the dispatch of getFilePath) or it is IMAGE and
\* the content file was read.
GetReachesUnknownKind(p, key, ctx) ==
  /\ ctx.kind \notin Kinds
  /\ MemGet(memoryCache[p], key) = None
  /\ \/ GetFilePathThrows(ctx.kind)
     \/ /\ ReadFile(disk, faults, GetFilePath(<<key, ".html">>, ctx.kind)) # None
        /\ ~Fails(faults, "stat", GetFilePath(<<key, ".html">>, ctx.kind))

\* set(key, data, ctx) by process p reaches a dispatch on data.kind with a
\* kind it has no case for: length() of the memory tier for an IMAGE value,
\* or the dispatch of the persistent write.
SetReachesUnknownKind(p, data) ==
  /\ data.kind \notin Kinds
  /\ data # NullValue
  /\ \/ memoryCache[p] # None /\ data.kind = IMAGE
     \/ inst[p].flushToDisk

\* C19: a get or a set that reaches a dispatch point with a kind the handler
\* has no case for raises an invariant error to its caller.
C19_UnknownKindIsFatal ==
  [][/\ (/\ OpStep
         /\ last'.op = "set"
         /\ SetReachesUnknownKind(last'.proc, last'.value[1]))
        => last'.threw = "invariant"
     /\ (/\ OpStep
         /\ last'.op = "get"
         /\ GetReachesUnknownKind(last'.proc, last'.key, last'.ctx))
        => last'.threw = "invariant"]_vars

\* C20: a get that missed the memory tier and was suspended in its read of
\* the persistent tier while a set of the same key by the same process
\* completed leaves the memory tier holding the value of that set.
C20_SuspendedGetKeepsLaterSet ==
  (/\ last.op = "getResume"
   /\ last.prev # None
   /\ memoryCache[last.proc] # None)
  => /\ MemGet(memoryCache[last.proc], last.key) # None
     /\ MemGet(memoryCache[last.proc], last.key)[1].value = last.prev[1].value

====
